---- MODULE Spec2Model ----
(***************************************************************************)
(* A model of the rhyzome node/relation store (SaulDoesCode/mb):           *)
(*   src/rhyzome-heed.rs            the embedded (LMDB/heed) backend       *)
(*   src/rhyzome-sqlx.rs            the relational (Postgres/sqlx) backend *)
(*   src/heed-rhyzome-server-mb.rs  the HTTP layer and its TokenManager    *)
(*                                                                         *)
(* Rust Strings are sequences of one-character strings, so that the        *)
(* relation key format and its parse are computed, not assumed.            *)
(***************************************************************************)
EXTENDS Integers, Sequences, FiniteSets, TLC

VARIABLES
    backend,       \* "heed" | "sqlx": which Rhyzome was constructed; "none": new returned Err
    nodes,         \* heed node_db / sqlx table nodes(id PRIMARY KEY, value)
    relations_db,  \* heed relations_db: relation key -> Relation.data
    relations,     \* sqlx table relations(name, from_id, to_id): rows, in insertion order
    tables,        \* sqlx: the tables the database holds
    ctor,          \* sqlx: a later Rhyzome::new call on the same database, in progress
    ret,           \* what the last completed call returned
    hist,          \* history: per node id, the last successful write
    trav,          \* a dfs/bfs call in progress (its locals)
    tokens,        \* TokenManager.tokens_rhyzome's node_db: token -> permission
    issued,        \* history: the tokens generate_token has returned
    wk,            \* per HTTP worker thread: its validate_token call in progress
    wins,          \* history: per token, how many validate_token calls returned Ok
    req            \* per HTTP worker thread: the request its handler is serving

storeVars == <<backend, nodes, relations_db, relations, tables, ctor, ret, hist>>
tokenVars == <<tokens, issued, wk, wins, req>>
vars == <<backend, nodes, relations_db, relations, tables, ctor, ret, hist, trav, tokens, issued, wk, wins, req>>

(***************************************************************************)
(* Bounds                                                                  *)
(***************************************************************************)
MaxRows == 4      \* rows the sqlx relations table may hold
MaxRel == 4       \* records the heed relations_db may hold in the traversal specifications
NumWorkers == 2   \* HTTP worker threads that may run validate_token at once
MaxTokens == 1    \* tokens generate_token may issue
MaxLen == 2       \* characters a relation name or node id may have in the codec specification

(***************************************************************************)
(* Strings                                                                 *)
(***************************************************************************)
S(c) == <<c>>

\* The byte value of a character (the alphabet the model draws from).
Ord(c) ==
    CASE c = "_" -> 95
      [] c = "a" -> 97
      [] c = "b" -> 98
      [] c = "c" -> 99
      [] c = "d" -> 100
      [] c = "e" -> 101
      [] c = "g" -> 103
      [] c = "i" -> 105
      [] c = "k" -> 107
      [] c = "l" -> 108
      [] c = "r" -> 114
      [] c = "s" -> 115
      [] c = "t" -> 116

\* Byte-wise lexicographic order, a proper prefix first: LMDB's default key order.
RECURSIVE StrLess(_, _)
StrLess(s, t) ==
    IF s = <<>> THEN t # <<>>
    ELSE IF t = <<>> THEN FALSE
    ELSE IF Ord(Head(s)) # Ord(Head(t)) THEN Ord(Head(s)) < Ord(Head(t))
    ELSE StrLess(Tail(s), Tail(t))

\* The keys of a set in ascending order: the key at position i has i - 1 keys below it.
SortKeys(K) ==
    [i \in 1..Cardinality(K) |-> CHOOSE k \in K : Cardinality({j \in K : StrLess(j, k)}) = i - 1]

\* str::split('_'): the pieces between the delimiters, empty pieces kept.  cut(k)
\* is the position of the k-th delimiter, cut(0) before the string and the last
\* cut behind it.
split(s) ==
    LET D == {i \in 1..Len(s) : s[i] = "_"}
        cut(k) == IF k = 0 THEN 0
                  ELSE IF k = Cardinality(D) + 1 THEN Len(s) + 1
                  ELSE CHOOSE i \in D : Cardinality({j \in D : j < i}) = k - 1
    IN  [k \in 1..(Cardinality(D) + 1) |-> SubSeq(s, cut(k - 1) + 1, cut(k) - 1)]

\* relation_key with the two node ids in the other order.
relation_key_swapped(relation_name, node_id1, node_id2) ==
    relation_name \o <<"_">> \o node_id2 \o <<"_">> \o node_id1

\* format!("{}_{}_{}", relation_name, node_id1, node_id2)
relation_key(relation_name, node_id1, node_id2) ==
    relation_name \o <<"_">> \o node_id1 \o <<"_">> \o node_id2

\* parse_relation_key: Err unless the key splits into exactly three parts.
parse_relation_key(key) ==
    LET parts == split(key)
    IN  IF Len(parts) # 3
        THEN [ok |-> FALSE, val |-> <<>>]
        ELSE [ok |-> TRUE, val |-> <<parts[1], parts[2], parts[3]>>]

(***************************************************************************)
(* The key-value engine: a heed Database is a finite map.                  *)
(***************************************************************************)
EmptyDb == <<>>

db_has(db, k) == k \in DOMAIN db

db_put(db, k, v) == [x \in (DOMAIN db) \cup {k} |-> IF x = k THEN v ELSE db[x]]

db_delete(db, k) == [x \in (DOMAIN db) \ {k} |-> db[x]]

\* Database::iter: the entries in key order.
db_iter(db) ==
    LET ks == SortKeys(DOMAIN db)
    IN  [i \in 1..Len(ks) |-> <<ks[i], db[ks[i]]>>]

(***************************************************************************)
(* Return values.  ty names the Rust shape of the value: "unit" for (),    *)
(* "none"/"some" for an Option, "vec" for a Vec, "err" for an Err.         *)
(***************************************************************************)
\* The tables Rhyzome::new creates (CREATE TABLE IF NOT EXISTS nodes / relations).
Tables == {"nodes", "relations"}

Ret(op, args, ty, val) == [op |-> op, args |-> args, ok |-> ty # "err", ty |-> ty, val |-> val]

NoRet == Ret("new", <<>>, "unit", <<>>)

\* new returned Err: no Rhyzome exists and no call can follow.
NewErr == Ret("new", <<>>, "err", <<>>)

\* The outcome of Rhyzome::new.  heed: EnvOpenOptions::new() is opened with no
\* max_dbs set, so create_database(Some("node")) returns Err unless the
\* environment admits the two named databases; sqlx: PgPool::connect or a CREATE
\* TABLE may fail.  Ok gives the Rhyzome of one of the given kinds.
new(kinds) ==
    \/ backend \in kinds /\ ret = NoRet
    \/ backend = "none" /\ ret = NewErr

NoWrite == [w |-> "none", p |-> "", existed |-> FALSE]

(***************************************************************************)
(* Node store                                                              *)
(***************************************************************************)
\* Mutant of add_node: the put reaches the database although the call fails (a
\* write outside the transaction, or a commit that fails after applying it).
add_node_torn(id, data, fail) ==
    /\ backend = "heed"
    /\ IF fail
       THEN /\ nodes' = db_put(nodes, id, data)
            /\ ret' = Ret("add_node", <<id, data>>, "err", <<>>)
            /\ UNCHANGED hist
       ELSE /\ nodes' = db_put(nodes, id, data)
            /\ ret' = Ret("add_node", <<id, data>>, "unit", <<>>)
            /\ hist' = [hist EXCEPT ![id] = [w |-> "put", p |-> data, existed |-> db_has(nodes, id)]]
    /\ UNCHANGED <<backend, ctor, tables, relations_db, relations, trav, tokenVars>>

\* heed add_node: one write transaction, put under node.id, commit.  A failed put
\* or commit drops the transaction: nothing is written.
add_node(id, data, fail) ==
    /\ backend = "heed"
    /\ IF fail
       THEN /\ ret' = Ret("add_node", <<id, data>>, "err", <<>>)
            /\ UNCHANGED <<nodes, hist>>
       ELSE /\ nodes' = db_put(nodes, id, data)
            /\ ret' = Ret("add_node", <<id, data>>, "unit", <<>>)
            /\ hist' = [hist EXCEPT ![id] = [w |-> "put", p |-> data, existed |-> db_has(nodes, id)]]
    /\ UNCHANGED <<backend, ctor, tables, relations_db, relations, trav, tokenVars>>

\* Mutant of update_node: the commit is forgotten, so the put is rolled back when
\* the transaction is dropped, and the call still returns Ok(()).
update_node_no_commit(id, data, fail) ==
    /\ backend = "heed"
    /\ IF fail
       THEN /\ ret' = Ret("update_node", <<id, data>>, "err", <<>>)
            /\ UNCHANGED <<nodes, hist>>
       ELSE /\ nodes' = nodes
            /\ ret' = Ret("update_node", <<id, data>>, "unit", <<>>)
            /\ hist' = [hist EXCEPT ![id] = [w |-> "put", p |-> data, existed |-> db_has(nodes, id)]]
    /\ UNCHANGED <<backend, ctor, tables, relations_db, relations, trav, tokenVars>>

\* heed update_node: the same put as add_node.
update_node(id, data, fail) ==
    /\ backend = "heed"
    /\ IF fail
       THEN /\ ret' = Ret("update_node", <<id, data>>, "err", <<>>)
            /\ UNCHANGED <<nodes, hist>>
       ELSE /\ nodes' = db_put(nodes, id, data)
            /\ ret' = Ret("update_node", <<id, data>>, "unit", <<>>)
            /\ hist' = [hist EXCEPT ![id] = [w |-> "put", p |-> data, existed |-> db_has(nodes, id)]]
    /\ UNCHANGED <<backend, ctor, tables, relations_db, relations, trav, tokenVars>>

\* sqlx set: INSERT ... ON CONFLICT (id) DO UPDATE SET value = $2.
set(id, value, fail) ==
    /\ backend = "sqlx"
    /\ IF fail \/ "nodes" \notin tables
       THEN /\ ret' = Ret("set", <<id, value>>, "err", <<>>)
            /\ UNCHANGED <<nodes, hist>>
       ELSE /\ nodes' = db_put(nodes, id, value)
            /\ ret' = Ret("set", <<id, value>>, "unit", <<>>)
            /\ hist' = [hist EXCEPT ![id] = [w |-> "put", p |-> value, existed |-> db_has(nodes, id)]]
    /\ UNCHANGED <<backend, ctor, tables, relations_db, relations, trav, tokenVars>>

\* heed get_node: one read transaction; Ok(None) when the key is absent.
get_node(id, fail) ==
    /\ backend = "heed"
    /\ ret' = IF fail THEN Ret("get_node", <<id>>, "err", <<>>)
              ELSE IF db_has(nodes, id) THEN Ret("get_node", <<id>>, "some", nodes[id])
              ELSE Ret("get_node", <<id>>, "none", <<>>)
    /\ UNCHANGED <<backend, ctor, tables, nodes, relations_db, relations, hist, trav, tokenVars>>

\* sqlx get: SELECT value FROM nodes WHERE id = $1, fetch_optional.
get(id, fail) ==
    /\ backend = "sqlx"
    /\ ret' = IF fail \/ "nodes" \notin tables THEN Ret("get", <<id>>, "err", <<>>)
              ELSE IF db_has(nodes, id) THEN Ret("get", <<id>>, "some", nodes[id])
              ELSE Ret("get", <<id>>, "none", <<>>)
    /\ UNCHANGED <<backend, ctor, tables, nodes, relations_db, relations, hist, trav, tokenVars>>

\* Mutant of delete_node: the delete goes to a transaction that is never committed.
delete_node_no_commit(id, fail) ==
    /\ backend = "heed"
    /\ IF fail
       THEN /\ ret' = Ret("delete_node", <<id>>, "err", <<>>)
            /\ UNCHANGED <<nodes, hist>>
       ELSE /\ nodes' = nodes
            /\ ret' = Ret("delete_node", <<id>>, "unit", <<>>)
            /\ hist' = [hist EXCEPT ![id] =
                           [w |-> "del", p |-> "", existed |-> db_has(nodes, id)]]
    /\ UNCHANGED <<backend, ctor, tables, relations_db, relations, trav, tokenVars>>

\* Mutant of delete_node: the delete cascades to the relations that name the node.
delete_node_cascade(id, fail) ==
    /\ backend = "heed"
    /\ IF fail
       THEN /\ ret' = Ret("delete_node", <<id>>, "err", <<>>)
            /\ UNCHANGED <<nodes, hist, relations_db>>
       ELSE /\ nodes' = db_delete(nodes, id)
            /\ relations_db' =
                   [k \in {x \in DOMAIN relations_db :
                              LET t == parse_relation_key(x)
                              IN  ~(t.ok /\ (t.val[2] = id \/ t.val[3] = id))}
                      |-> relations_db[k]]
            /\ ret' = Ret("delete_node", <<id>>, "unit", <<>>)
            /\ hist' = [hist EXCEPT ![id] =
                           [w |-> "del", p |-> "", existed |-> db_has(nodes, id)]]
    /\ UNCHANGED <<backend, ctor, tables, relations, trav, tokenVars>>

\* heed delete_node: Database::delete's bool is dropped; the call returns Ok(())
\* whether or not a record was there.
delete_node(id, fail) ==
    /\ backend = "heed"
    /\ IF fail
       THEN /\ ret' = Ret("delete_node", <<id>>, "err", <<>>)
            /\ UNCHANGED <<nodes, hist>>
       ELSE /\ nodes' = db_delete(nodes, id)
            /\ ret' = Ret("delete_node", <<id>>, "unit", <<>>)
            /\ hist' = [hist EXCEPT ![id] =
                           [w |-> "del", p |-> "", existed |-> db_has(nodes, id)]]
    /\ UNCHANGED <<backend, ctor, tables, relations_db, relations, trav, tokenVars>>

\* sqlx delete: DELETE FROM nodes WHERE id = $1; the affected-row count is dropped.
delete(id, fail) ==
    /\ backend = "sqlx"
    /\ IF fail \/ "nodes" \notin tables
       THEN /\ ret' = Ret("delete", <<id>>, "err", <<>>)
            /\ UNCHANGED <<nodes, hist>>
       ELSE /\ nodes' = db_delete(nodes, id)
            /\ ret' = Ret("delete", <<id>>, "unit", <<>>)
            /\ hist' = [hist EXCEPT ![id] =
                           [w |-> "del", p |-> "", existed |-> db_has(nodes, id)]]
    /\ UNCHANGED <<backend, ctor, tables, relations_db, relations, trav, tokenVars>>

(***************************************************************************)
(* Relation store                                                          *)
(***************************************************************************)
\* heed add_relation: the key is the three components joined by '_'; nothing
\* checks that a component is free of '_'.  One write transaction, one put.
add_relation(relation_name, node_id1, node_id2, data, fail) ==
    /\ backend = "heed"
    /\ LET key == relation_key(relation_name, node_id1, node_id2)
           args == <<relation_name, node_id1, node_id2, data>>
       IN  IF fail
           THEN /\ ret' = Ret("add_relation", args, "err", <<>>)
                /\ UNCHANGED relations_db
           ELSE /\ relations_db' = db_put(relations_db, key, data)
                /\ ret' = Ret("add_relation", args, "unit", <<>>)
    /\ UNCHANGED <<backend, ctor, tables, nodes, relations, hist, trav, tokenVars>>

\* heed update_relation: the same put as add_relation.
update_relation(relation_name, node_id1, node_id2, data, fail) ==
    /\ backend = "heed"
    /\ LET key == relation_key(relation_name, node_id1, node_id2)
           args == <<relation_name, node_id1, node_id2, data>>
       IN  IF fail
           THEN /\ ret' = Ret("update_relation", args, "err", <<>>)
                /\ UNCHANGED relations_db
           ELSE /\ relations_db' = db_put(relations_db, key, data)
                /\ ret' = Ret("update_relation", args, "unit", <<>>)
    /\ UNCHANGED <<backend, ctor, tables, nodes, relations, hist, trav, tokenVars>>

\* The value heed get_relation returns from a given relations_db.
get_relation_of(db, relation_name, node_id1, node_id2) ==
    LET key == relation_key(relation_name, node_id1, node_id2)
        args == <<relation_name, node_id1, node_id2>>
    IN  IF db_has(db, key)
        THEN Ret("get_relation", args, "some", db[key])
        ELSE Ret("get_relation", args, "none", <<>>)

\* heed get_relation: one read transaction, one get.
get_relation(relation_name, node_id1, node_id2, fail) ==
    /\ backend = "heed"
    /\ ret' = IF fail
              THEN Ret("get_relation", <<relation_name, node_id1, node_id2>>, "err", <<>>)
              ELSE get_relation_of(relations_db, relation_name, node_id1, node_id2)
    /\ UNCHANGED <<backend, ctor, tables, nodes, relations_db, relations, hist, trav, tokenVars>>

\* heed delete_relation: one write transaction, one delete; Ok(()) either way.
delete_relation(relation_name, node_id1, node_id2, fail) ==
    /\ backend = "heed"
    /\ LET key == relation_key(relation_name, node_id1, node_id2)
           args == <<relation_name, node_id1, node_id2>>
       IN  IF fail
           THEN /\ ret' = Ret("delete_relation", args, "err", <<>>)
                /\ UNCHANGED relations_db
           ELSE /\ relations_db' = db_delete(relations_db, key)
                /\ ret' = Ret("delete_relation", args, "unit", <<>>)
    /\ UNCHANGED <<backend, ctor, tables, nodes, relations, hist, trav, tokenVars>>

\* sqlx relate: a plain INSERT into a table that declares no key, so every call
\* adds a row.
relate(from_id, relation_name, to_id, fail) ==
    /\ backend = "sqlx"
    /\ Len(relations) < MaxRows
    /\ IF fail \/ "relations" \notin tables
       THEN /\ ret' = Ret("relate", <<from_id, relation_name, to_id>>, "err", <<>>)
            /\ UNCHANGED relations
       ELSE /\ relations' = Append(relations, <<relation_name, from_id, to_id>>)
            /\ ret' = Ret("relate", <<from_id, relation_name, to_id>>, "unit", <<>>)
    /\ UNCHANGED <<backend, ctor, tables, nodes, relations_db, hist, trav, tokenVars>>

(***************************************************************************)
(* Graph traversal.  The locals of a dfs/bfs call: result is the Vec the    *)
(* call returns (heed's `visited`, sqlx's `result`), work the stack or      *)
(* queue, seen sqlx's `visited` HashSet (heed has none).                    *)
(***************************************************************************)
Range(s) == {s[i] : i \in 1..Len(s)}

Last(s) == s[Len(s)]

Front(s) == SubSeq(s, 1, Len(s) - 1)

NoLocals == [result |-> <<>>, work |-> <<>>, seen |-> {}, status |-> "run"]

\* Mutant of query_relations: a key that does not parse is skipped (continue) where
\* the code returns through `?`.
query_relations_skip_bad(db, node_id) ==
    LET es == db_iter(db)
        parsed == [k \in DOMAIN db |-> parse_relation_key(k)]
        good == SelectSeq([i \in 1..Len(es) |-> es[i][1]], LAMBDA k : parsed[k].ok)
    IN  [ok |-> TRUE,
         val |-> SelectSeq([i \in 1..Len(good) |-> parsed[good[i]].val],
                           LAMBDA t : t[2] = node_id)]

\* heed query_relations: one read transaction over the whole relations_db, in key
\* order; the first key that does not parse ends the call with Err.  The filter is
\* the closure every caller in the file passes, |(_, id1, _)| id1 == node_id, given
\* here by its node_id.
query_relations(db, node_id) ==
    LET es == db_iter(db)
        parsed == [k \in DOMAIN db |-> parse_relation_key(k)]
    IN  IF \E k \in DOMAIN db : ~parsed[k].ok
        THEN [ok |-> FALSE, val |-> <<>>]
        ELSE [ok |-> TRUE,
              val |-> SelectSeq([i \in 1..Len(es) |-> parsed[es[i][1]].val],
                                LAMBDA t : t[2] = node_id)]

\* heed dfs/bfs, the body of `while let Some(node_id) = ...pop()` for the popped
\* node_id, rest being the worklist after the pop.
heed_visit(db, st, node_id, rest) ==
    IF node_id \in Range(st.result)
    THEN [st EXCEPT !.work = rest]
    ELSE LET rels == query_relations(db, node_id)
         IN  IF ~rels.ok
             THEN [st EXCEPT !.result = Append(@, node_id), !.work = rest, !.status = "err"]
             ELSE [st EXCEPT !.result = Append(@, node_id),
                             !.work = rest \o [i \in 1..Len(rels.val) |-> rels.val[i][3]]]

\* Mutant of heed_dfs_iter: the loop reads the top of the stack without removing it.
heed_dfs_iter_peek(db, st) == heed_visit(db, st, Last(st.work), st.work)

\* heed dfs, one iteration: stack.pop() takes the last element.
heed_dfs_iter(db, st) == heed_visit(db, st, Last(st.work), Front(st.work))

\* Mutant of heed_bfs_iter: the loop pushes id1 (the node itself) instead of id2.
heed_bfs_iter_push_id1(db, st) ==
    LET node_id == Head(st.work)
        rels == query_relations(db, node_id)
    IN  IF node_id \in Range(st.result)
        THEN [st EXCEPT !.work = Tail(st.work)]
        ELSE IF ~rels.ok
        THEN [st EXCEPT !.result = Append(@, node_id), !.work = Tail(st.work), !.status = "err"]
        ELSE [st EXCEPT !.result = Append(@, node_id),
                        !.work = Tail(st.work) \o [i \in 1..Len(rels.val) |-> rels.val[i][2]]]

\* heed bfs, one iteration: queue.pop(0) takes the element at index 0, the front
\* (Vec has no pop with an index; the call is read as the removal at that index).
heed_bfs_iter(db, st) == heed_visit(db, st, Head(st.work), Tail(st.work))

\* sqlx get_related: SELECT to_id FROM relations WHERE from_id = $1 AND name = $2.
get_related(rows, id, relation_name) ==
    LET hit == SelectSeq(rows, LAMBDA r : r[2] = id /\ r[1] = relation_name)
    IN  [i \in 1..Len(hit) |-> hit[i][3]]

\* The name sqlx dfs and bfs pass to get_related.
Related == <<"r", "e", "l", "a", "t", "e", "d">>

\* sqlx dfs/bfs, the `for related_id in related_ids` loop: each id not yet in the
\* visited set is inserted and pushed.
RECURSIVE push_unvisited(_, _)
push_unvisited(st, related_ids) ==
    IF related_ids = <<>> THEN st
    ELSE LET id == Head(related_ids)
         IN  IF id \in st.seen
             THEN push_unvisited(st, Tail(related_ids))
             ELSE push_unvisited([st EXCEPT !.seen = @ \cup {id}, !.work = Append(@, id)],
                                 Tail(related_ids))

\* sqlx dfs, one iteration: stack.pop(), result.push, then the loop.
sqlx_dfs_iter(rows, st) ==
    LET id == Last(st.work)
    IN  push_unvisited([st EXCEPT !.result = Append(@, id), !.work = Front(st.work)],
                       get_related(rows, id, Related))

\* sqlx bfs, one iteration: queue.pop_front(), result.push, then the loop.
sqlx_bfs_iter(rows, st) ==
    LET id == Head(st.work)
    IN  push_unvisited([st EXCEPT !.result = Append(@, id), !.work = Tail(st.work)],
                       get_related(rows, id, Related))

\* The locals before the first iteration.
locals_at_start(be, start) ==
    [result |-> <<>>, work |-> <<start>>,
     seen |-> IF be = "sqlx" THEN {start} ELSE {}, status |-> "run"]

\* One iteration of the loop of the given backend's dfs or bfs.
loop_iter(be, mode, store, st) ==
    IF be = "heed"
    THEN IF mode = "dfs" THEN heed_dfs_iter(store, st) ELSE heed_bfs_iter(store, st)
    ELSE IF mode = "dfs" THEN sqlx_dfs_iter(store, st) ELSE sqlx_bfs_iter(store, st)

\* The loop, run to its end against one unchanging store.
RECURSIVE loop_run(_, _, _, _)
loop_run(be, mode, store, st) ==
    IF st.status = "err" \/ st.work = <<>> THEN st
    ELSE loop_run(be, mode, store, loop_iter(be, mode, store, st))

\* What a whole dfs/bfs call returns when the store does not change under it.
traverse(be, mode, store, start) ==
    LET end == loop_run(be, mode, store, locals_at_start(be, start))
    IN  IF end.status = "err"
        THEN Ret(mode, <<start>>, "err", <<>>)
        ELSE Ret(mode, <<start>>, "vec", end.result)

\* The store the backend's traversal reads.
Store == IF backend = "heed" THEN relations_db ELSE relations

\* A dfs/bfs call begins: its locals are set up.  snap records the store as it is
\* at that moment (history; the code keeps no such copy).
traversal_begin(mode, start) ==
    /\ backend \in {"heed", "sqlx"}
    /\ trav.pc # "run"
    /\ trav' = [pc |-> "run", mode |-> mode, start |-> start,
                st |-> locals_at_start(backend, start), snap |-> Store]
    /\ UNCHANGED <<storeVars, tokenVars>>

\* Whether the iteration about to run makes a lookup: sqlx calls get_related for
\* every popped id, heed calls query_relations only for a node not yet visited.
looks_up(be, mode, st) ==
    \/ be = "sqlx"
    \/ (IF mode = "dfs" THEN Last(st.work) ELSE Head(st.work)) \notin Range(st.result)

\* One iteration of the running call's loop, against the store as it is now: every
\* query_relations / get_related opens a read of its own.  The call returns when
\* the worklist is empty or a lookup failed: the engine failed (fail: the read
\* transaction could not begin, the SELECT returned Err), the relations table of
\* sqlx is gone, or a heed key did not decode.
traversal_iter(fail) ==
    /\ trav.pc = "run"
    /\ \E st \in {IF looks_up(backend, trav.mode, trav.st)
                      /\ (fail \/ (backend = "sqlx" /\ "relations" \notin tables))
                   THEN [trav.st EXCEPT !.status = "err"]
                   ELSE loop_iter(backend, trav.mode, Store, trav.st)} :
          LET over == st.status = "err" \/ st.work = <<>>
          IN  /\ trav' = [trav EXCEPT !.st = st, !.pc = IF over THEN "done" ELSE "run"]
              /\ ret' = IF ~over THEN ret
                        ELSE IF st.status = "err" THEN Ret(trav.mode, <<trav.start>>, "err", <<>>)
                        ELSE Ret(trav.mode, <<trav.start>>, "vec", st.result)
    /\ UNCHANGED <<backend, ctor, tables, nodes, relations_db, relations, hist, tokenVars>>

(***************************************************************************)
(* The store specification: node and relation calls on either backend.     *)
(***************************************************************************)
NodeIds == {S("a"), S("b")}
Payloads == {"p1", "p2"}
StoreNames == {<<"l", "i", "k", "e", "s">>}

TravIdle == [pc |-> "idle", mode |-> "", start |-> <<>>, st |-> NoLocals, snap |-> <<>>]

WorkerIdle == [pc |-> "idle", token |-> 0, perm |-> "", node |-> <<>>]

\* No request being served: handler names the handler function, validated tells
\* whether the validate_token call of the worker's latest request returned Ok.
ReqIdle == [handler |-> "", id |-> <<>>, token |-> 0, validated |-> FALSE]

TokensIdle ==
    /\ tokens = EmptyDb
    /\ issued = {}
    /\ wk = [w \in 1..NumWorkers |-> WorkerIdle]
    /\ wins = [t \in 1..MaxTokens |-> 0]
    /\ req = [w \in 1..NumWorkers |-> ReqIdle]

Init ==
    /\ new({"heed", "sqlx"})
    /\ nodes = EmptyDb
    /\ relations_db = EmptyDb
    /\ relations = <<>>
    /\ tables = Tables
    /\ ctor = "idle"
    /\ hist = [id \in NodeIds |-> NoWrite]
    /\ trav = TravIdle
    /\ TokensIdle

Next ==
    \/ \E id \in NodeIds, data \in Payloads, fail \in BOOLEAN : add_node(id, data, fail)
    \/ \E id \in NodeIds, data \in Payloads, fail \in BOOLEAN : update_node(id, data, fail)
    \/ \E id \in NodeIds, value \in Payloads, fail \in BOOLEAN : set(id, value, fail)
    \/ \E id \in NodeIds, fail \in BOOLEAN : get_node(id, fail)
    \/ \E id \in NodeIds, fail \in BOOLEAN : get(id, fail)
    \/ \E id \in NodeIds, fail \in BOOLEAN : delete_node(id, fail)
    \/ \E id \in NodeIds, fail \in BOOLEAN : delete(id, fail)
    \/ \E n \in StoreNames, a \in NodeIds : \E b \in NodeIds \ {a}, data \in Payloads, fail \in BOOLEAN :
          add_relation(n, a, b, data, fail)
    \/ \E n \in StoreNames, a \in NodeIds : \E b \in NodeIds \ {a}, data \in Payloads, fail \in BOOLEAN :
          update_relation(n, a, b, data, fail)
    \/ \E n \in StoreNames, a \in NodeIds : \E b \in NodeIds \ {a}, fail \in BOOLEAN :
          get_relation(n, a, b, fail)
    \/ \E n \in StoreNames, a \in NodeIds : \E b \in NodeIds \ {a}, fail \in BOOLEAN :
          delete_relation(n, a, b, fail)
    \/ \E n \in StoreNames, a \in NodeIds : \E b \in NodeIds \ {a}, fail \in BOOLEAN :
          relate(a, n, b, fail)

Spec == Init /\ [][Next]_vars

(***************************************************************************)
(* Claims about the store                                                  *)
(***************************************************************************)
NodeGets == {"get_node", "get"}
NodeDeletes == {"delete_node", "delete"}
RelationPuts == {"add_relation", "update_relation"}

\* C1 (node round-trip): a successful get of an id whose last successful write was
\* put(id, p) returns a present result whose payload is exactly p.
C1_RoundTrip ==
    (ret.op \in NodeGets /\ ret.ok /\ hist[ret.args[1]].w = "put")
        => (ret.ty = "some" /\ ret.val = hist[ret.args[1]].p)

\* C1 witness: a get has returned the payload of a put that overwrote an older record.
C1_Witness ==
    /\ ret.op \in NodeGets
    /\ ret.ok
    /\ hist[ret.args[1]].w = "put"
    /\ hist[ret.args[1]].existed
    /\ ret.ty = "some"
    /\ ret.val = "p2"

\* C8 (delete then read): a successful get of an id that was put, then deleted, and
\* not put again, returns not-found as a value (Ok(None)), not as an error.
C8_DeleteThenRead ==
    (ret.op \in NodeGets /\ ret.ok /\ hist[ret.args[1]].w = "del" /\ hist[ret.args[1]].existed)
        => ret.ty = "none"

\* C8 witness: a get has returned not-found for an id whose record a delete removed.
C8_Witness ==
    /\ ret.op \in NodeGets
    /\ ret.ok
    /\ hist[ret.args[1]].w = "del"
    /\ hist[ret.args[1]].existed
    /\ ret.ty = "none"

\* C9 (delete outcome), as claimed: a successful delete returns a boolean, true
\* exactly when a record for the id existed immediately before the call.
C9_DeleteOutcome ==
    (ret.op \in NodeDeletes /\ ret.ok)
        => (ret.ty = "bool" /\ ret.val = hist[ret.args[1]].existed)

MutatingCalls ==
    {"add_node", "update_node", "set", "delete_node", "delete",
     "add_relation", "update_relation", "delete_relation", "relate"}

\* C18 (atomic failure): a step in which a node or relation put or delete returns
\* an error leaves the node store and the relation store exactly as they were, so
\* every later read sees the store as before the call.
C18_AtomicFailure ==
    [][(ret'.op \in MutatingCalls /\ ret'.ty = "err")
          => (nodes' = nodes /\ relations_db' = relations_db /\ relations' = relations)]_vars

\* C18 witness: a put on an id that holds a record has failed, and the record still
\* holds the payload it held, not the payload of the failed put.
C18_Witness ==
    /\ ret.op \in {"add_node", "update_node", "set"}
    /\ ret.ty = "err"
    /\ db_has(nodes, ret.args[1])
    /\ nodes[ret.args[1]] # ret.args[2]
    /\ hist[ret.args[1]].p = nodes[ret.args[1]]

\* The records the store holds for one triple.
RecordsFor(name, from, to) ==
    IF backend = "heed"
    THEN Cardinality({k \in DOMAIN relations_db : k = relation_key(name, from, to)})
    ELSE Cardinality({i \in 1..Len(relations) : relations[i] = <<name, from, to>>})

\* C4 (relation identity), as claimed: at most one stored record per triple, and
\* after a successful write of a triple exactly one record of it, holding the
\* payload written last.
C4_RelationIdentity ==
    /\ \A n \in StoreNames, a \in NodeIds, b \in NodeIds : RecordsFor(n, a, b) <= 1
    /\ (ret.op \in RelationPuts /\ ret.ok)
          => /\ RecordsFor(ret.args[1], ret.args[2], ret.args[3]) = 1
             /\ get_relation_of(relations_db, ret.args[1], ret.args[2], ret.args[3]).val
                    = ret.args[4]

\* C10 (no cascade): a node delete changes nothing in the relation key space: every
\* get_relation returns after it what it returned before it.
C10_NoCascade ==
    [][ret'.op \in NodeDeletes =>
          /\ relations_db' = relations_db
          /\ relations' = relations
          /\ \A n \in StoreNames, a \in NodeIds, b \in NodeIds :
                get_relation_of(relations_db', n, a, b) = get_relation_of(relations_db, n, a, b)]_vars

\* C10 witness: a node whose record existed was deleted while a relation from it
\* and a relation to it are stored.
C10_Witness ==
    /\ ret.op = "delete_node"
    /\ ret.ok
    /\ hist[ret.args[1]].existed
    /\ \E n \in StoreNames, b \in NodeIds :
          /\ get_relation_of(relations_db, n, ret.args[1], b).ty = "some"
          /\ get_relation_of(relations_db, n, b, ret.args[1]).ty = "some"

(***************************************************************************)
(* The graph specification: relations are written, then dfs/bfs calls run   *)
(* one loop iteration at a time over the relations as written (no write     *)
(* commits once a call has begun; writes during a call are the matter of    *)
(* the interleaving specification below).  The relations are drawn from a   *)
(* set that holds a chain, a diamond, a cycle, a self-loop, a relation      *)
(* under another name than "related", and a relation whose node id holds    *)
(* the delimiter.                                                           *)
(***************************************************************************)
Edge == <<"e", "d", "g", "e">>

GraphIds == {S("a"), S("b"), S("c"), S("d")}

GraphTriples ==
    { <<Related, S("a"), S("b")>>, <<Related, S("a"), S("c")>>,
      <<Related, S("b"), S("c")>>,
      <<Related, S("c"), S("d")>>, <<Related, S("d"), S("a")>>,
      <<Related, S("a"), S("a")>>,
      <<Edge, S("a"), S("d")>>,
      <<Related, S("a"), <<"b", "_", "c">>>> }

\* The heed relations_db stays within MaxRel records.
RoomFor(t) == Cardinality(DOMAIN relations_db \cup {relation_key(t[1], t[2], t[3])}) <= MaxRel

InitGraph ==
    /\ new({"heed", "sqlx"})
    /\ nodes = EmptyDb
    /\ relations_db = EmptyDb
    /\ relations = <<>>
    /\ tables = Tables
    /\ ctor = "idle"
    /\ hist = [id \in NodeIds |-> NoWrite]
    /\ trav = TravIdle
    /\ TokensIdle

NextGraph ==
    \/ \E t \in GraphTriples :
          trav.pc = "idle" /\ RoomFor(t) /\ add_relation(t[1], t[2], t[3], "p1", FALSE)
    \/ \E t \in GraphTriples : trav.pc = "idle" /\ relate(t[2], t[1], t[3], FALSE)
    \/ \E mode \in {"dfs", "bfs"}, start \in GraphIds :
          trav.pc = "idle" /\ traversal_begin(mode, start)
    \/ \E fail \in BOOLEAN : traversal_iter(fail)

SpecGraph == InitGraph /\ [][NextGraph]_vars

(***************************************************************************)
(* The interleaving specification: a dfs/bfs call runs one loop iteration   *)
(* at a time while relation writes commit between its iterations.           *)
(***************************************************************************)
IsoIds == {S("a"), S("b"), S("c")}

IsoTriples ==
    { <<Related, S("a"), S("b")>>, <<Related, S("b"), S("c")>>,
      <<Related, S("c"), S("a")>> }

NextIso ==
    \/ \E t \in IsoTriples : RoomFor(t) /\ add_relation(t[1], t[2], t[3], "p1", FALSE)
    \/ \E t \in IsoTriples : delete_relation(t[1], t[2], t[3], FALSE)
    \/ \E t \in IsoTriples : relate(t[2], t[1], t[3], FALSE)
    \/ \E mode \in {"dfs", "bfs"}, start \in IsoIds : traversal_begin(mode, start)
    \/ \E fail \in BOOLEAN : traversal_iter(fail)

SpecIso == InitGraph /\ [][NextIso]_vars

(***************************************************************************)
(* TokenManager (the HTTP layer's single-use capability tokens).  The       *)
(* server's worker threads share one TokenManager; a validate_token call is *)
(* two store calls, each its own transaction, so other threads' calls may   *)
(* run between them.  A token is named by the order of its generation: the  *)
(* 8 random alphanumeric characters of generate_token_id are taken to be    *)
(* fresh.                                                                   *)
(***************************************************************************)
Permissions == {"create", "edit"}

\* generate_token: a fresh token id, stored as a node whose content is the
\* permission.  store_node(..)? returns the Err of a failed write: no token is
\* stored and none is handed out.
generate_token(permission, fail) ==
    /\ backend = "heed"
    /\ Cardinality(issued) < MaxTokens
    /\ LET token == Cardinality(issued) + 1
       IN  IF fail
           THEN /\ ret' = Ret("generate_token", <<permission>>, "err", <<>>)
                /\ UNCHANGED <<tokens, issued>>
           ELSE /\ tokens' = db_put(tokens, token, permission)
                /\ issued' = issued \cup {token}
                /\ ret' = Ret("generate_token", <<permission>>, "some", token)
    /\ UNCHANGED <<backend, ctor, tables, nodes, relations_db, relations, hist, trav, wk, wins, req>>

\* validate_token, first statement: retrieve_node(token)?, one read transaction; a
\* failed read returns Err at once.  The caller's own state (req) is left to the
\* caller: a handler, or nobody.
validate_token_retrieve(w, token, required_permission, fail) ==
    /\ backend = "heed"
    /\ wk[w].pc = "idle"
    /\ IF fail
       THEN /\ ret' = Ret("validate_token", <<token, required_permission>>, "err", "store")
            /\ UNCHANGED wk
       ELSE /\ wk' = [wk EXCEPT ![w] =
                        [pc |-> "match", token |-> token, perm |-> required_permission,
                         node |-> IF db_has(tokens, token) THEN <<tokens[token]>> ELSE <<>>]]
            /\ UNCHANGED ret
    /\ UNCHANGED <<backend, ctor, tables, nodes, relations_db, relations, hist, trav, tokens, issued, wins>>

\* Mutant of validate_token_match: the token is deleted as soon as it is found,
\* before its permission is compared.
validate_token_match_delete_first(w, fail) ==
    /\ wk[w].pc = "match"
    /\ LET args == <<wk[w].token, wk[w].perm>>
       IN  IF wk[w].node # <<>> /\ wk[w].node[1] = wk[w].perm
           THEN IF fail
                THEN /\ ret' = Ret("validate_token", args, "err", "store")
                     /\ UNCHANGED <<tokens, wins>>
                ELSE /\ tokens' = db_delete(tokens, wk[w].token)
                     /\ wins' = [wins EXCEPT ![wk[w].token] = @ + 1]
                     /\ ret' = Ret("validate_token", args, "unit", <<>>)
           ELSE /\ ret' = Ret("validate_token", args, "err", "denied")
                /\ tokens' = db_delete(tokens, wk[w].token)
                /\ UNCHANGED wins
    /\ wk' = [wk EXCEPT ![w] = WorkerIdle]
    /\ UNCHANGED <<backend, ctor, tables, nodes, relations_db, relations, hist, trav, issued>>

\* validate_token, the match: Some(node) with the required permission deletes the
\* token in a write transaction of its own and returns Ok(()); anything else is
\* Err("Invalid token or insufficient permissions"), given as "denied", and no
\* write.  A failed delete is Err too, given as "store".
validate_token_match(w, fail) ==
    /\ wk[w].pc = "match"
    /\ LET args == <<wk[w].token, wk[w].perm>>
       IN  IF wk[w].node # <<>> /\ wk[w].node[1] = wk[w].perm
           THEN IF fail
                THEN /\ ret' = Ret("validate_token", args, "err", "store")
                     /\ UNCHANGED <<tokens, wins>>
                ELSE /\ tokens' = db_delete(tokens, wk[w].token)
                     /\ wins' = [wins EXCEPT ![wk[w].token] = @ + 1]
                     /\ ret' = Ret("validate_token", args, "unit", <<>>)
           ELSE /\ ret' = Ret("validate_token", args, "err", "denied")
                /\ UNCHANGED <<tokens, wins>>
    /\ wk' = [wk EXCEPT ![w] = WorkerIdle]
    /\ UNCHANGED <<backend, ctor, tables, nodes, relations_db, relations, hist, trav, issued>>

InitToken ==
    /\ backend = "heed"
    /\ nodes = EmptyDb
    /\ relations_db = EmptyDb
    /\ relations = <<>>
    /\ tables = Tables
    /\ ctor = "idle"
    /\ ret = NoRet
    /\ hist = [id \in NodeIds |-> NoWrite]
    /\ trav = TravIdle
    /\ TokensIdle

NextToken ==
    \/ \E p \in Permissions, fail \in BOOLEAN : generate_token(p, fail)
    \/ \E w \in 1..NumWorkers, t \in 1..MaxTokens, p \in Permissions, fail \in BOOLEAN :
          validate_token_retrieve(w, t, p, fail) /\ UNCHANGED req
    \/ \E w \in 1..NumWorkers, fail \in BOOLEAN : validate_token_match(w, fail) /\ UNCHANGED req

SpecToken == InitToken /\ [][NextToken]_vars

\* C2 (token single use), as claimed: whatever the interleaving of the redeem calls
\* on a token, at most one of them succeeds.
C2_SingleUse == \A t \in 1..MaxTokens : wins[t] <= 1

\* C19 (a denied redeem does not consume the token): a validate_token call that
\* found the token stored with another permission than the required one returns
\* an error and leaves the token store as it is, so the token can still be
\* redeemed with its own permission.
C19_DeniedKeepsToken ==
    [][\A w \in 1..NumWorkers :
          (/\ wk[w].pc = "match"
           /\ wk'[w].pc = "idle"
           /\ wk[w].node # <<>>
           /\ wk[w].node[1] # wk[w].perm)
              => (ret'.ty = "err" /\ tokens' = tokens)]_vars

\* C19 witness: a redeem has been denied for the permission, and the token is
\* still stored, with its own permission.
C19_Witness ==
    /\ ret.op = "validate_token"
    /\ ret.ty = "err"
    /\ ret.val = "denied"
    /\ db_has(tokens, ret.args[1])
    /\ tokens[ret.args[1]] # ret.args[2]

(***************************************************************************)
(* Claims about traversal                                                  *)
(***************************************************************************)
\* The triples whose record the store holds.
StoredTriples ==
    IF backend = "heed"
    THEN {t \in GraphTriples \cup IsoTriples : db_has(relations_db, relation_key(t[1], t[2], t[3]))}
    ELSE Range(relations)

\* The directed graph the stored relations imply, whatever their names.
Edges(triples) == {<<t[2], t[3]>> : t \in triples}

Successors(E, N) == {e[2] : e \in {x \in E : x[1] \in N}}

\* The nodes reachable from the nodes N along E.
RECURSIVE Reach(_, _)
Reach(E, N) ==
    LET M == N \cup Successors(E, N)
    IN  IF M = N THEN N ELSE Reach(E, M)

\* The hop distance to v, v being reachable, from the frontier at distance k.
RECURSIVE DistFrom(_, _, _, _, _)
DistFrom(E, frontier, seen, v, k) ==
    IF v \in frontier THEN k
    ELSE LET next == Successors(E, frontier) \ seen
         IN  DistFrom(E, next, seen \cup next, v, k + 1)

Dist(E, start, v) == DistFrom(E, {start}, {start}, v, 0)

NoDuplicates(s) == \A i \in 1..Len(s), j \in 1..Len(s) : s[i] = s[j] => i = j

\* C5 (depth-first result), as claimed: the sequence dfs returns starts with the
\* start node and holds exactly the nodes reachable from it along the stored
\* relations, each once.
C5_DepthFirstResult ==
    (ret.op = "dfs" /\ ret.ok)
        => /\ ret.val # <<>>
           /\ ret.val[1] = ret.args[1]
           /\ NoDuplicates(ret.val)
           /\ Range(ret.val) = Reach(Edges(StoredTriples), {ret.args[1]})

\* C6 (breadth-first order), as claimed: the sequence bfs returns is ordered by
\* non-decreasing hop distance from the start node along the stored relations.
C6_BreadthFirstOrder ==
    (ret.op = "bfs" /\ ret.ok)
        => \A i \in 1..Len(ret.val), j \in 1..Len(ret.val) :
              i < j => Dist(Edges(StoredTriples), ret.args[1], ret.val[i])
                          <= Dist(Edges(StoredTriples), ret.args[1], ret.val[j])

\* The other traversal of the one that returned last.
OtherMode == IF ret.op = "dfs" THEN "bfs" ELSE "dfs"

\* C7 (same visited set): on the same stored relations and the same start node,
\* when one of dfs and bfs returns a sequence, the other, the engine working,
\* returns a sequence as well, holding the same set of ids.
C7_SameVisitedSet ==
    (ret.op \in {"dfs", "bfs"} /\ ret.ok)
        => LET other == traverse(backend, OtherMode, Store, ret.args[1])
           IN  /\ other.ok
               /\ Range(ret.val) = Range(other.val)

\* C7 witness: a traversal has returned three or more ids in an order the other
\* traversal does not return them in.
C7_Witness ==
    /\ ret.op \in {"dfs", "bfs"}
    /\ ret.ok
    /\ Len(ret.val) >= 3
    /\ traverse(backend, OtherMode, Store, ret.args[1]).val # ret.val

\* The store of the other backend holding the same relations: the rows written
\* to heed under their keys, the heed triples as rows in key order.
OtherBackend == IF backend = "heed" THEN "sqlx" ELSE "heed"

SameRelationsIn(be) ==
    IF be = "heed"
    THEN [k \in {relation_key(relations[i][1], relations[i][2], relations[i][3]) :
                     i \in 1..Len(relations)} |-> "p1"]
    ELSE LET T == {t \in GraphTriples : relation_key(t[1], t[2], t[3]) \in DOMAIN relations_db}
             ks == SortKeys({relation_key(t[1], t[2], t[3]) : t \in T})
         IN  [i \in 1..Len(ks) |-> CHOOSE t \in T : relation_key(t[1], t[2], t[3]) = ks[i]]

\* C16 (backend interchangeability), as claimed: with the same stored relations and
\* the same start node, the traversal of the key-value backend and the traversal of
\* the relational backend visit the same set of node ids, dfs and bfs alike.
C16_BackendInterchangeable ==
    ret.op \in {"dfs", "bfs"}
        => LET other == traverse(OtherBackend, ret.op, SameRelationsIn(OtherBackend), ret.args[1])
           IN  (ret.ok /\ other.ok) => Range(ret.val) = Range(other.val)

\* C3 (snapshot isolation of a traversal), as claimed: a call returns the traversal
\* of the relation set as it was when the call began, whatever commits meanwhile.
C3_SnapshotIsolation ==
    (trav.pc = "done" /\ trav.st.status = "run")
        => trav.st.result = traverse(backend, trav.mode, trav.snap, trav.start).val

(***************************************************************************)
(* The codec specification: the key codec applied to strings drawn from    *)
(* every string of bounded length over two letters and the delimiter.      *)
(***************************************************************************)
Alphabet == {"a", "b", "_"}

\* The strings of at most n characters.
Strs(n) == UNION {[1..k -> Alphabet] : k \in 0..n}

\* A call about to be made: its arguments, and nothing returned yet.
Call(args) == Ret("call", args, "unit", <<>>)

\* The key add_relation formats for a triple, decoded as query_relations decodes it.
format_parse ==
    /\ ret.op = "call"
    /\ Len(ret.args) = 3
    /\ LET key == relation_key(ret.args[1], ret.args[2], ret.args[3])
           r == parse_relation_key(key)
       IN  ret' = Ret("format_parse", ret.args \o <<key>>, IF r.ok THEN "some" ELSE "err", r.val)
    /\ UNCHANGED <<backend, ctor, tables, nodes, relations_db, relations, hist, trav, tokenVars>>

\* parse_relation_key applied to the key of a stored record.
parse_key ==
    /\ ret.op = "call"
    /\ Len(ret.args) = 1
    /\ LET r == parse_relation_key(ret.args[1])
       IN  ret' = Ret("parse_relation_key", ret.args, IF r.ok THEN "some" ELSE "err", r.val)
    /\ UNCHANGED <<backend, ctor, tables, nodes, relations_db, relations, hist, trav, tokenVars>>

InitCodec ==
    /\ backend = "heed"
    /\ nodes = EmptyDb
    /\ relations_db = EmptyDb
    /\ relations = <<>>
    /\ tables = Tables
    /\ ctor = "idle"
    /\ ret \in {Call(<<n, a, b>>) : n \in Strs(MaxLen), a \in Strs(MaxLen), b \in Strs(MaxLen)}
                  \cup {Call(<<key>>) : key \in Strs(MaxLen + 2)}
    /\ hist = [id \in NodeIds |-> NoWrite]
    /\ trav = TravIdle
    /\ TokensIdle

NextCodec ==
    \/ format_parse
    \/ parse_key

SpecCodec == InitCodec /\ [][NextCodec]_vars

HasDelimiter(s) == \E i \in 1..Len(s) : s[i] = "_"

\* C11 (codec round-trip): for a name, from and to none of which holds the delimiter,
\* decoding the encoded key succeeds and gives back exactly (name, from, to).
C11_CodecRoundTrip ==
    (/\ ret.op = "format_parse"
     /\ \A i \in 1..3 : ~HasDelimiter(ret.args[i]))
        => (ret.ty = "some" /\ ret.val = <<ret.args[1], ret.args[2], ret.args[3]>>)

\* C11 witness: a triple of three different delimiter-free components, one of them
\* two characters long, has been encoded and decoded back.
C11_Witness ==
    /\ ret.op = "format_parse"
    /\ \A i \in 1..3 : ~HasDelimiter(ret.args[i]) /\ ret.args[i] # <<>>
    /\ Len(ret.args[1]) = 2
    /\ ret.args[2] # ret.args[3]
    /\ ret.ty = "some"
    /\ ret.val = <<ret.args[1], ret.args[2], ret.args[3]>>

\* C13 (strict decode), as claimed: a key decodes only if splitting it on the
\* delimiter yields exactly three parts and each part is non-empty.
C13_StrictDecode ==
    (ret.op \in {"parse_relation_key", "format_parse"} /\ ret.ok)
        => LET parts == split(ret.args[Len(ret.args)])
           IN  /\ Len(parts) = 3
               /\ \A i \in 1..Len(parts) : parts[i] # <<>>

(***************************************************************************)
(* The key specification: heed relation calls on triples whose components  *)
(* may hold the delimiter.  Two of the triples format to the same key.     *)
(***************************************************************************)
KeyTriples ==
    { <<<<"a", "_", "b">>, S("c"), S("d")>>,
      <<S("a"), <<"b", "_", "c">>, S("d")>>,
      <<S("a"), S("b"), S("c")>>,
      <<S("a"), S("b"), S("d")>> }

InitKeys ==
    /\ new({"heed"})
    /\ nodes = EmptyDb
    /\ relations_db = EmptyDb
    /\ relations = <<>>
    /\ tables = Tables
    /\ ctor = "idle"
    /\ hist = [id \in NodeIds |-> NoWrite]
    /\ trav = TravIdle
    /\ TokensIdle

NextKeys ==
    \/ \E t \in KeyTriples, data \in Payloads, fail \in BOOLEAN :
          add_relation(t[1], t[2], t[3], data, fail)
    \/ \E t \in KeyTriples, data \in Payloads, fail \in BOOLEAN :
          update_relation(t[1], t[2], t[3], data, fail)
    \/ \E t \in KeyTriples, fail \in BOOLEAN : get_relation(t[1], t[2], t[3], fail)
    \/ \E t \in KeyTriples, fail \in BOOLEAN : delete_relation(t[1], t[2], t[3], fail)

SpecKeys == InitKeys /\ [][NextKeys]_vars

RelationCalls == {"add_relation", "update_relation", "get_relation", "delete_relation"}

\* C12 (encode-side validation), as claimed: a relation put, get or delete one of
\* whose name, from, to holds the delimiter returns an error, and no stored key is
\* the key of two distinct triples.
C12_EncodeValidation ==
    /\ (ret.op \in RelationCalls /\ \E i \in 1..3 : HasDelimiter(ret.args[i]))
           => ret.ty = "err"
    /\ \A k \in DOMAIN relations_db :
           Cardinality({t \in KeyTriples : relation_key(t[1], t[2], t[3]) = k}) <= 1

(***************************************************************************)
(* Node listing and node scan.  The field both functions name, nodes_db,    *)
(* is read as node_db, the only node database the struct declares.  The     *)
(* filter of query_nodes, an Fn(&[u8]) -> bool, is given as the set of byte *)
(* strings it accepts.                                                      *)
(***************************************************************************)
\* Mutant of iter_nodes: the cursor has moved past its first entry before the loop.
iter_nodes_skip_first(fail) ==
    /\ backend = "heed"
    /\ ret' = IF fail
              THEN Ret("iter_nodes", <<>>, "err", <<>>)
              ELSE LET entries == db_iter(nodes)
                   IN  Ret("iter_nodes", <<>>, "vec", [i \in 1..(Len(entries) - 1) |-> entries[i + 1][1]])
    /\ UNCHANGED <<backend, ctor, tables, nodes, relations_db, relations, hist, trav, tokenVars>>

\* heed iter_nodes: one read transaction; the key of every entry, in cursor order.
iter_nodes(fail) ==
    /\ backend = "heed"
    /\ ret' = IF fail
              THEN Ret("iter_nodes", <<>>, "err", <<>>)
              ELSE LET entries == db_iter(nodes)
                   IN  Ret("iter_nodes", <<>>, "vec", [i \in 1..Len(entries) |-> entries[i][1]])
    /\ UNCHANGED <<backend, ctor, tables, nodes, relations_db, relations, hist, trav, tokenVars>>

\* The arrangements of a set as a sequence without repetition.
Orderings(K) == {s \in [1..Cardinality(K) -> K] : \A i, j \in 1..Cardinality(K) : s[i] = s[j] => i = j}

\* sqlx iter: SELECT id FROM nodes, one id per row; without ORDER BY the rows come
\* in an order the database chooses.
iter(fail) ==
    /\ backend = "sqlx"
    /\ \E ids \in Orderings(DOMAIN nodes) :
          ret' = IF fail \/ "nodes" \notin tables
                 THEN Ret("iter", <<>>, "err", <<>>)
                 ELSE Ret("iter", <<>>, "vec", ids)
    /\ UNCHANGED <<backend, ctor, tables, nodes, relations_db, relations, hist, trav, tokenVars>>

\* The entries of a cursor whose key the filter accepts: the loop of query_nodes,
\* which binds the value of each entry to _ and hands the key bytes to the filter.
RECURSIVE filter_keys(_, _)
filter_keys(entries, filter) ==
    IF entries = <<>> THEN <<>>
    ELSE LET node_key == Head(entries)[1]
         IN  (IF node_key \in filter THEN <<node_key>> ELSE <<>>)
                 \o filter_keys(Tail(entries), filter)

\* heed query_nodes: one read transaction, a full scan of the node database.
query_nodes(filter, fail) ==
    /\ backend = "heed"
    /\ ret' = IF fail
              THEN Ret("query_nodes", <<filter>>, "err", <<>>)
              ELSE Ret("query_nodes", <<filter>>, "vec", filter_keys(db_iter(nodes), filter))
    /\ UNCHANGED <<backend, ctor, tables, nodes, relations_db, relations, hist, trav, tokenVars>>

\* The payloads of the scan specification are byte strings an id may equal.
ScanData == {S("a"), S("b")}

NextScan ==
    \/ \E id \in NodeIds, data \in ScanData, fail \in BOOLEAN : add_node(id, data, fail)
    \/ \E id \in NodeIds, value \in ScanData, fail \in BOOLEAN : set(id, value, fail)
    \/ \E id \in NodeIds, fail \in BOOLEAN : delete_node(id, fail)
    \/ \E id \in NodeIds, fail \in BOOLEAN : delete(id, fail)
    \/ \E fail \in BOOLEAN : iter_nodes(fail)
    \/ \E fail \in BOOLEAN : iter(fail)
    \/ \E filter \in SUBSET ScanData, fail \in BOOLEAN : query_nodes(filter, fail)

SpecScan == Init /\ [][NextScan]_vars

(***************************************************************************)
(* sqlx query: the caller's statement goes to the pool as it is, so a call  *)
(* may read or write either table, or drop it.  The statements are drawn    *)
(* from a small set: a SELECT, DELETEs with and without WHERE, an UPDATE,   *)
(* and DROP TABLE.                                                          *)
(***************************************************************************)
Statements ==
    { "SELECT id FROM nodes",
      "DELETE FROM nodes",
      "DROP TABLE nodes",
      "DELETE FROM relations",
      "DELETE FROM relations WHERE from_id = 'a'",
      "UPDATE relations SET to_id = 'a'",
      "DROP TABLE relations" }

\* The table a statement names.
table_of(sql) ==
    IF sql \in {"SELECT id FROM nodes", "DELETE FROM nodes", "DROP TABLE nodes"}
    THEN "nodes" ELSE "relations"

\* The rows of relations after a statement.
relations_after(sql, rows) ==
    IF sql \in {"DELETE FROM relations", "DROP TABLE relations"} THEN <<>>
    ELSE IF sql = "DELETE FROM relations WHERE from_id = 'a'"
    THEN SelectSeq(rows, LAMBDA r : r[2] # S("a"))
    ELSE IF sql = "UPDATE relations SET to_id = 'a'"
    THEN [i \in 1..Len(rows) |-> <<rows[i][1], rows[i][2], S("a")>>]
    ELSE rows

\* sqlx query: sqlx::query(query).fetch_all(&self.pool), then column 0 of every
\* returned row.  A statement that returns no rows gives Ok([]); a statement on a
\* table that is gone, like any failed statement, gives Err and changes nothing.
query(sql, fail) ==
    /\ backend = "sqlx"
    /\ IF fail \/ table_of(sql) \notin tables
       THEN /\ ret' = Ret("query", <<sql>>, "err", <<>>)
            /\ UNCHANGED <<nodes, relations, tables, hist>>
       ELSE /\ nodes' = IF sql \in {"DELETE FROM nodes", "DROP TABLE nodes"} THEN EmptyDb ELSE nodes
            /\ relations' = relations_after(sql, relations)
            /\ tables' = IF sql \in {"DROP TABLE nodes", "DROP TABLE relations"}
                         THEN tables \ {table_of(sql)}
                         ELSE tables
            /\ hist' = IF sql \in {"DELETE FROM nodes", "DROP TABLE nodes"}
                       THEN [id \in DOMAIN hist |->
                               IF db_has(nodes, id)
                               THEN [w |-> "del", p |-> "", existed |-> TRUE]
                               ELSE hist[id]]
                       ELSE hist
            /\ \E ids \in (IF sql = "SELECT id FROM nodes"
                            THEN Orderings(DOMAIN nodes) ELSE {<<>>}) :
                  ret' = Ret("query", <<sql>>, "vec", ids)
    /\ UNCHANGED <<backend, ctor, relations_db, trav, tokenVars>>

\* sqlx new, called again on the database: PgPool::connect, then CREATE TABLE IF
\* NOT EXISTS nodes, a statement of its own.  A table that was dropped comes back
\* empty; Err (of the connect or of the statement) ends the call.
new_create_nodes(fail) ==
    /\ backend = "sqlx"
    /\ ctor = "idle"
    /\ IF fail
       THEN /\ ret' = NewErr
            /\ UNCHANGED <<tables, ctor>>
       ELSE /\ tables' = tables \cup {"nodes"}
            /\ ctor' = "relations"
            /\ UNCHANGED ret
    /\ UNCHANGED <<backend, nodes, relations_db, relations, hist, trav, tokenVars>>

\* sqlx new, its second statement: CREATE TABLE IF NOT EXISTS relations, then
\* Ok(Rhyzome { pool }).
new_create_relations(fail) ==
    /\ backend = "sqlx"
    /\ ctor = "relations"
    /\ ctor' = "idle"
    /\ IF fail
       THEN /\ ret' = NewErr
            /\ UNCHANGED tables
       ELSE /\ tables' = tables \cup {"relations"}
            /\ ret' = NoRet
    /\ UNCHANGED <<backend, nodes, relations_db, relations, hist, trav, tokenVars>>

(***************************************************************************)
(* The statement specification: the sqlx calls, query and a later call of   *)
(* new among them, and then one dfs or bfs call over the tables as the      *)
(* statements left them.                                                    *)
(***************************************************************************)
InitSql ==
    /\ new({"sqlx"})
    /\ nodes = EmptyDb
    /\ relations_db = EmptyDb
    /\ relations = <<>>
    /\ tables = Tables
    /\ ctor = "idle"
    /\ hist = [id \in NodeIds |-> NoWrite]
    /\ trav = TravIdle
    /\ TokensIdle

NextSql ==
    \/ \E id \in NodeIds, fail \in BOOLEAN : trav.pc = "idle" /\ set(id, "p1", fail)
    \/ \E id \in NodeIds, fail \in BOOLEAN : trav.pc = "idle" /\ get(id, fail)
    \/ \E id \in NodeIds, fail \in BOOLEAN : trav.pc = "idle" /\ delete(id, fail)
    \/ \E fail \in BOOLEAN : trav.pc = "idle" /\ iter(fail)
    \/ \E a \in NodeIds : \E b \in NodeIds \ {a}, fail \in BOOLEAN :
          trav.pc = "idle" /\ relate(a, Related, b, fail)
    \/ \E sql \in Statements, fail \in BOOLEAN : trav.pc = "idle" /\ query(sql, fail)
    \/ \E fail \in BOOLEAN : trav.pc = "idle" /\ new_create_nodes(fail)
    \/ \E fail \in BOOLEAN : new_create_relations(fail)
    \/ \E mode \in {"dfs", "bfs"}, start \in NodeIds :
          trav.pc = "idle" /\ traversal_begin(mode, start)
    \/ \E fail \in BOOLEAN : traversal_iter(fail)

SpecSql == InitSql /\ [][NextSql]_vars

\* C14 (node scan), as claimed: a successful query_nodes(predicate) returns exactly
\* the ids of the stored nodes whose payload satisfies the predicate.
C14_NodeScan ==
    (ret.op = "query_nodes" /\ ret.ok)
        => /\ NoDuplicates(ret.val)
           /\ Range(ret.val) = {id \in DOMAIN nodes : nodes[id] \in ret.args[1]}

\* C15 (node listing): a successful listing returns each id put and not deleted
\* since exactly once, and no other id.
C15_NodeListing ==
    (ret.op \in {"iter_nodes", "iter"} /\ ret.ok)
        => /\ NoDuplicates(ret.val)
           /\ Range(ret.val) = {id \in NodeIds : hist[id].w = "put"}

\* C15 witness: a listing has returned the one id left after another id was put and
\* deleted, the id left having been put twice.
C15_Witness ==
    /\ ret.op \in {"iter_nodes", "iter"}
    /\ ret.ok
    /\ Len(ret.val) = 1
    /\ hist[ret.val[1]].w = "put"
    /\ hist[ret.val[1]].existed
    /\ \E id \in NodeIds : hist[id].w = "del" /\ hist[id].existed

(***************************************************************************)
(* The termination specification: relations are written while no call has  *)
(* begun, then a dfs or bfs call runs one loop iteration at a time against  *)
(* the unchanging store.  The relations hold a cycle, a self-loop and a key     *)
(* that does not decode.  The thread running a call keeps running: an       *)
(* iteration that can be taken is eventually taken.                         *)
(***************************************************************************)
TermTriples ==
    IsoTriples \cup { <<Related, S("a"), S("a")>>, <<Related, S("a"), <<"b", "_", "c">>>> }

NextTerm ==
    \/ \E t \in TermTriples :
          trav.pc = "idle" /\ RoomFor(t) /\ add_relation(t[1], t[2], t[3], "p1", FALSE)
    \/ \E t \in TermTriples : trav.pc = "idle" /\ relate(t[2], t[1], t[3], FALSE)
    \/ \E mode \in {"dfs", "bfs"}, start \in IsoIds :
          trav.pc = "idle" /\ traversal_begin(mode, start)
    \/ \E fail \in BOOLEAN : traversal_iter(fail)

SpecTerm ==
    InitGraph /\ [][NextTerm]_vars /\ WF_vars(\E fail \in BOOLEAN : traversal_iter(fail))

\* C17 (traversal termination): with no relation written during the call, every
\* dfs and bfs call that has begun comes to its end: its worklist becomes empty,
\* or a lookup has failed and the call has returned the error.
C17_Termination ==
    (trav.pc = "run")
        ~> (trav.pc = "done" /\ (trav.st.work = <<>> \/ trav.st.status = "err"))

\* C17 witness: a call over a store that holds the cycle a -> b -> c -> a and the
\* self-loop a -> a has ended with an empty worklist, all three nodes visited.
C17_Witness ==
    /\ trav.pc = "done"
    /\ trav.st.status = "run"
    /\ trav.st.work = <<>>
    /\ Len(trav.st.result) = 3
    /\ IsoTriples \cup {<<Related, S("a"), S("a")>>} \subseteq StoredTriples

(***************************************************************************)
(* The server specification: the handlers create_post, get_post and         *)
(* delete_post, each run by a worker thread.  A handler calls               *)
(* validate_token (two store calls, as above) and, when that returned Ok,   *)
(* makes its one call on the post store.  The post store's calls are the    *)
(* ones the handlers name (store_node, retrieve_node, delete_node returning *)
(* whether a record was removed), with the outcomes the handlers match on.  *)
(***************************************************************************)
Handlers == {"create_post", "get_post", "delete_post"}

\* The post ids of the requests' paths.
PostIds == {S("a")}

\* The ids generate_token_id hands to create_post: 8 random alphanumeric
\* characters, taken to be an id that no stored post has and no request names.
GeneratedIds == {S("b")}

\* let permission = "create" in create_post, "edit" in get_post and delete_post.
PermissionFor(handler) == IF handler = "create_post" THEN "create" ELSE "edit"

\* A request reaches a free worker; its handler takes the token from the
\* Authorization header and calls validate_token, whose first statement runs.  A
\* failed read makes validate_token return Err: the response is 401.  The path of
\* get_post and delete_post carries the post id; a create_post request carries none.
handler_begin(w, handler, id, token, fail) ==
    /\ req[w].handler = ""
    /\ (handler = "create_post") = (id = <<>>)
    /\ validate_token_retrieve(w, token, PermissionFor(handler), fail)
    /\ req' = [req EXCEPT ![w] =
                 IF fail
                 THEN ReqIdle
                 ELSE [handler |-> handler, id |-> id, token |-> token, validated |-> FALSE]]

\* validate_token returns to the handler: Ok(()) leads on to the call on the post
\* store, Err to the response 401.
handler_validated(w, fail) ==
    /\ req[w].handler # ""
    /\ ~req[w].validated
    /\ validate_token_match(w, fail)
    /\ req' = [req EXCEPT ![w] =
                 IF ret'.ok
                 THEN [@ EXCEPT !.validated = TRUE]
                 ELSE ReqIdle]

\* No response is sent: the handler panicked.
NoResponse == 0

\* The response of the handler's call on the post store.  get_post and delete_post
\* answer 200 when the post was found, 404 when there was none, 500 when the store
\* failed.  create_post answers 200 when the post was stored; it unwraps the result
\* of store_node, so a failed store makes the handler panic and no response is sent.
status_of(handler, found, fail) ==
    IF handler = "create_post"
    THEN IF fail THEN NoResponse ELSE 200
    ELSE IF fail THEN 500
    ELSE IF found THEN 200
    ELSE 404

\* Mutant of handler_store_call: a request that did not find its post, or whose
\* store call failed, gives the token back.
handler_store_call_restore(w, post_id, fail) ==
    /\ req[w].handler # ""
    /\ req[w].validated
    /\ LET handler == req[w].handler
           id == IF handler = "create_post" THEN post_id ELSE req[w].id
           status == status_of(handler, db_has(nodes, id), fail)
       IN  /\ (handler = "create_post") => ~db_has(nodes, post_id)
           /\ nodes' = IF fail \/ handler = "get_post" THEN nodes
                       ELSE IF handler = "create_post" THEN db_put(nodes, id, "post")
                       ELSE db_delete(nodes, id)
           /\ req' = [req EXCEPT ![w] = ReqIdle]
           /\ ret' = Ret(handler, <<id, req[w].token>>,
                         IF status = NoResponse THEN "panic" ELSE "some", status)
           /\ tokens' = IF status = 200 THEN tokens
                        ELSE db_put(tokens, req[w].token, PermissionFor(handler))
    /\ UNCHANGED <<backend, ctor, tables, relations_db, relations, hist, trav, issued, wk, wins>>

\* The handler's call on the post store and its response.  create_post stores a
\* new post under post_id, the id generate_token_id gave it, and leaves every
\* stored post as it is; get_post retrieves the post of the request's path and
\* delete_post deletes it; nothing here touches the token store.  A create_post
\* whose store_node failed panics: nothing is stored and nothing is answered.
handler_store_call(w, post_id, fail) ==
    /\ req[w].handler # ""
    /\ req[w].validated
    /\ LET handler == req[w].handler
           id == IF handler = "create_post" THEN post_id ELSE req[w].id
           status == status_of(handler, db_has(nodes, id), fail)
       IN  /\ (handler = "create_post") => ~db_has(nodes, post_id)
           /\ nodes' = IF fail \/ handler = "get_post" THEN nodes
                       ELSE IF handler = "create_post" THEN db_put(nodes, id, "post")
                       ELSE db_delete(nodes, id)
           /\ req' = [req EXCEPT ![w] = ReqIdle]
           /\ ret' = Ret(handler, <<id, req[w].token>>,
                         IF status = NoResponse THEN "panic" ELSE "some", status)
    /\ UNCHANGED <<backend, ctor, tables, relations_db, relations, hist, trav, tokens, issued, wk, wins>>

\* The post store is persistent: the server starts with the posts of earlier runs.
InitServer ==
    /\ backend = "heed"
    /\ nodes \in {EmptyDb, [id \in PostIds |-> "post"]}
    /\ relations_db = EmptyDb
    /\ relations = <<>>
    /\ tables = Tables
    /\ ctor = "idle"
    /\ ret = NoRet
    /\ hist = [id \in NodeIds |-> NoWrite]
    /\ trav = TravIdle
    /\ TokensIdle

NextServer ==
    \/ \E p \in Permissions, fail \in BOOLEAN : generate_token(p, fail)
    \/ \E w \in 1..NumWorkers, handler \in Handlers, id \in PostIds \cup {<<>>},
          t \in 1..MaxTokens, fail \in BOOLEAN : handler_begin(w, handler, id, t, fail)
    \/ \E w \in 1..NumWorkers, fail \in BOOLEAN : handler_validated(w, fail)
    \/ \E w \in 1..NumWorkers, post_id \in GeneratedIds, fail \in BOOLEAN :
          handler_store_call(w, post_id, fail)

SpecServer == InitServer /\ [][NextServer]_vars

\* C20 (the token is consumed before the gated operation and never restored): in
\* get_post and delete_post, once validate_token has succeeded for a request, the
\* request's token is not stored while the call on the post store is pending, nor
\* when the handler has answered, whatever the outcome (found, not found, store
\* error); and a token that a validate_token call has consumed is never stored
\* again.
C20_TokenConsumedFirst ==
    /\ \A w \in 1..NumWorkers :
          (req[w].validated /\ req[w].handler \in {"get_post", "delete_post"})
              => ~db_has(tokens, req[w].token)
    /\ ret.op \in {"get_post", "delete_post"} => ~db_has(tokens, ret.args[2])
    /\ \A t \in 1..MaxTokens : wins[t] > 0 => ~db_has(tokens, t)

\* C20 witness: a get_post or delete_post whose token was validated has answered
\* not found or store error, and its token is gone.
C20_Witness ==
    /\ ret.op \in {"get_post", "delete_post"}
    /\ ret.val \in {404, 500}
    /\ wins[ret.args[2]] > 0
    /\ ret.args[2] \in issued
    /\ ~db_has(tokens, ret.args[2])

(***************************************************************************)
(* The scan specification of the heed relation store: relations are added  *)
(* and deleted, and query_relations, get_related_nodes, dfs and bfs are     *)
(* called between the writes; dfs and bfs run one loop iteration at a time, *)
(* and writes commit between the iterations of a running call as well.     *)
(* Two of the triples hold the delimiter inside a component, so their keys  *)
(* split into four parts; one has an empty component, so its key still      *)
(* splits into three; the self-loop puts a visited node on the worklist.    *)
(***************************************************************************)
ScanTriples ==
    { <<Related, S("a"), S("b")>>,
      <<Related, S("a"), S("a")>>,
      <<Related, S("a"), <<>>>>,
      <<Related, S("a"), <<"b", "_", "c">>>>,
      <<<<"a", "_", "b">>, S("c"), S("d")>> }

\* The filters handed to query_relations, each given as the set of triples it
\* accepts: every set of triples whose key decodes.
ScanFilters == SUBSET {t \in ScanTriples : parse_relation_key(relation_key(t[1], t[2], t[3])).val = t}

\* query_relations with a filter of the caller's: every key of the cursor is parsed
\* before the filter sees it, and the first key that does not parse returns Err.
query_relations_by(db, filter) ==
    LET es == db_iter(db)
        parsed == [k \in DOMAIN db |-> parse_relation_key(k)]
    IN  IF \E k \in DOMAIN db : ~parsed[k].ok
        THEN [ok |-> FALSE, val |-> <<>>]
        ELSE [ok |-> TRUE,
              val |-> SelectSeq([i \in 1..Len(es) |-> parsed[es[i][1]].val],
                                LAMBDA t : t \in filter)]

\* A call of query_relations: one read transaction.  Err when the transaction
\* cannot begin or the cursor fails, as when a key does not parse.
query_relations_call(filter, fail) ==
    /\ backend = "heed"
    /\ LET rels == query_relations_by(relations_db, filter)
       IN  ret' = IF ~fail /\ rels.ok
                  THEN Ret("query_relations", <<filter>>, "vec", rels.val)
                  ELSE Ret("query_relations", <<filter>>, "err", <<>>)
    /\ UNCHANGED <<backend, ctor, tables, nodes, relations_db, relations, hist, trav, tokenVars>>

\* heed get_related_nodes: query_relations(|(_, id1, _)| id1 == node_id)?, then the
\* id2 of every relation found.
get_related_nodes(node_id, fail) ==
    /\ backend = "heed"
    /\ LET rels == query_relations(relations_db, node_id)
       IN  ret' = IF ~fail /\ rels.ok
                  THEN Ret("get_related_nodes", <<node_id>>, "vec",
                           [i \in 1..Len(rels.val) |-> rels.val[i][3]])
                  ELSE Ret("get_related_nodes", <<node_id>>, "err", <<>>)
    /\ UNCHANGED <<backend, ctor, tables, nodes, relations_db, relations, hist, trav, tokenVars>>

NextPoison ==
    \/ \E t \in ScanTriples :
          trav.pc # "done" /\ RoomFor(t) /\ add_relation(t[1], t[2], t[3], "p1", FALSE)
    \/ \E t \in ScanTriples : trav.pc # "done" /\ delete_relation(t[1], t[2], t[3], FALSE)
    \/ \E filter \in ScanFilters, fail \in BOOLEAN :
          trav.pc = "idle" /\ query_relations_call(filter, fail)
    \/ \E node_id \in IsoIds, fail \in BOOLEAN :
          trav.pc = "idle" /\ get_related_nodes(node_id, fail)
    \/ \E mode \in {"dfs", "bfs"}, start \in IsoIds :
          trav.pc = "idle" /\ traversal_begin(mode, start)
    \/ \E fail \in BOOLEAN : traversal_iter(fail)

SpecPoison == InitKeys /\ [][NextPoison]_vars

\* The relation store holds a key that does not split into exactly three parts.
Poisoned == \E k \in DOMAIN relations_db : Len(split(k)) # 3

====
